---- MODULE Spec2Model ----
(***************************************************************************)
(* A model of add_to_bring.py: one run of the command, from main() to the  *)
(* process exit.  A state is taken at every blocking point of the run (a   *)
(* terminal read, the `cook` subprocess, a call of the Bring! service);    *)
(* an action is the code executed between two blocking points.             *)
(*                                                                         *)
(* Strings on which the code calls lower() are sequences of one-character  *)
(* strings, so that lower() is computed character by character; all other  *)
(* strings are TLA+ strings.  A float is its value in tenths, or NaN.      *)
(*                                                                         *)
(* A local variable the code does not read again is emptied where its last *)
(* read is (the recipe references once `cook` has ended, the kitchen and   *)
(* the recipe once the selection holds them): its value there decides      *)
(* nothing of what the run does next.                                      *)
(***************************************************************************)
EXTENDS Integers, Sequences, FiniteSets, TLC

(***************************************************************************)
(* Bounds of the model.                                                    *)
(***************************************************************************)
\* Categories in one result of the generator.
MaxCats == 2
\* Items in one result of the generator, over all its categories.
MaxItems == 2
\* Recipes selected in one session of the picker.
MaxRecipes == 2
\* Recipe references on the command line.
MaxArgs == 2
\* Lists of the Bring! account.
MaxLists == 2

(***************************************************************************)
(* Strings and numbers.                                                    *)
(***************************************************************************)
\* str.lower() on one character.
LowerChar(c) ==
    CASE c = "H" -> "h"
      [] c = "O" -> "o"
      [] c = "M" -> "m"
      [] c = "E" -> "e"
      [] c = "S" -> "s"
      [] c = "T" -> "t"
      [] c = "A" -> "a"
      [] c = "P" -> "p"
      [] c = "L" -> "l"
      [] c = "Y" -> "y"
      [] c = "N" -> "n"
      [] c = "Q" -> "q"
      [] c = "B" -> "b"
      [] OTHER -> c

\* str.lower() on a string given as a sequence of characters.
Lower(s) == [i \in 1..Len(s) |-> LowerChar(s[i])]

\* The marker of a key that a dict does not hold (no name is this sequence).
NoKey == <<"<no key>">>

\* dict.get(key, default).
Get(d, key, default) == IF d[key] = NoKey THEN default ELSE d[key]

\* A float: its value in tenths, or the float that is not a number.
Num(t) == [kind |-> "num", tenths |-> t]
NaN == [kind |-> "nan", tenths |-> 0]
\* What float() and int() give when they raise ValueError.
ValueError == [kind |-> "ValueError", tenths |-> 0]

\* float(text), the text a sequence of characters.
ParseFloat(text) ==
    CASE text = <<"1">>           -> Num(10)
      [] text = <<"1", ".", "0">> -> Num(10)
      [] text = <<"2">>           -> Num(20)
      [] text = <<"2", ".", "0">> -> Num(20)
      [] text = <<"0">>           -> Num(0)
      [] text = <<"0", ".", "0">> -> Num(0)
      [] text = <<"-", "1">>      -> Num(-10)
      [] text = <<"n", "a", "n">> -> NaN
      [] OTHER                    -> ValueError

\* str(scale) of a float, as the f-string of line 462 renders it.
FormatFloat(v) ==
    CASE v = NaN      -> <<"n", "a", "n">>
      [] v = Num(10)  -> <<"1", ".", "0">>
      [] v = Num(20)  -> <<"2", ".", "0">>
      [] v = Num(0)   -> <<"0", ".", "0">>
      [] v = Num(-10) -> <<"-", "1", ".", "0">>

\* scale <= 0 on floats: every comparison with NaN is false.
FloatLeqZero(v) == v.kind = "num" /\ v.tenths <= 0

\* scale != 1.0 on floats: NaN differs from every float.
FloatNeqOne(v) == v # Num(10)

\* int(choice): the integer, or IntError when int() raises ValueError.
IntOk(n) == [kind |-> "int", n |-> n]
IntError == [kind |-> "ValueError", n |-> 0]
ParseInt(text) ==
    CASE text = <<"0">>      -> IntOk(0)
      [] text = <<"1">>      -> IntOk(1)
      [] text = <<"2">>      -> IntOk(2)
      [] text = <<"3">>      -> IntOk(3)
      [] text = <<"-", "1">> -> IntOk(-1)
      [] OTHER               -> IntError

\* str.strip() on a sequence of characters.
RECURSIVE StripLeft(_)
StripLeft(s) == IF s # <<>> /\ Head(s) = " " THEN StripLeft(Tail(s)) ELSE s
RECURSIVE StripRight(_)
StripRight(s) ==
    IF s # <<>> /\ s[Len(s)] = " " THEN StripRight(SubSeq(s, 1, Len(s) - 1)) ELSE s
Strip(s) == StripRight(StripLeft(s))

\* The sum of f over the indices 1..n.
RECURSIVE SumTo(_, _)
SumTo(f, n) == IF n = 0 THEN 0 ELSE f[n] + SumTo(f, n - 1)

\* The sequences over S of a length from lo to hi.
SeqsOf(S, lo, hi) == UNION {[1..n -> S] : n \in lo..hi}

\* Whether no element occurs twice in s.
Distinct(s) == \A i, j \in 1..Len(s) : s[i] = s[j] => i = j

(***************************************************************************)
(* The output of the external generator (`cook shopping-list -f json`): a  *)
(* sequence of categories {category, items}, an item being {name,          *)
(* quantity} and a quantity entry {value: {type, value: {value}}, unit},   *)
(* here flattened to [type, num, unit].                                    *)
(***************************************************************************)
\* The literal 'staples' of lines 114, 506 and 615.
STAPLES_LITERAL == <<"s", "t", "a", "p", "l", "e", "s">>

Staples == <<"S", "t", "a", "p", "l", "e", "s">>
staples == <<"s", "t", "a", "p", "l", "e", "s">>
Pasta == <<"P", "a", "s", "t", "a">>

\* The category names the generator uses.
CatNames == {Staples, staples, Pasta}

\* The quantity of the j-th item of a category.
QuantityOf(j) ==
    CASE j = 1 -> <<>>
      [] j = 2 -> <<[type |-> "number", num |-> 2, unit |-> "kg"]>>
      [] j = 3 -> <<[type |-> "number", num |-> 1, unit |-> ""],
                    [type |-> "text", num |-> 0, unit |-> ""]>>
      [] OTHER -> <<[type |-> "number", num |-> 0, unit |-> "g"]>>

\* The name of the j-th item of the category named c.
ItemName(c, j) ==
    (CASE c = Staples -> "Salt" [] c = staples -> "oil" [] OTHER -> "penne")
        \o ToString(j)

\* The items of a category named c that holds n items.
ItemsOf(c, n) == [j \in 1..n |-> [name |-> ItemName(c, j), quantity |-> QuantityOf(j)]]

\* The results of the generator: up to MaxCats categories of distinct names,
\* holding up to MaxItems items together.
GenResults ==
    UNION { { [i \in 1..Len(ns) |-> [category |-> ns[i], items |-> ItemsOf(ns[i], cnt[i])]] :
                cnt \in {c \in [1..Len(ns) -> 0..MaxItems] : SumTo(c, Len(ns)) <= MaxItems} } :
            ns \in {s \in SeqsOf(CatNames, 0, MaxCats) : Distinct(s)} }

(***************************************************************************)
(* filter_staples and format_quantity.                                     *)
(***************************************************************************)
\* cat.get('category', '').lower() == 'staples'
IsStaples(cat) == Lower(Get(cat, "category", <<>>)) = STAPLES_LITERAL

\* filter_staples comparing the name without lower-casing it.
filter_staples_case_sensitive(shopping_list) ==
    SelectSeq(shopping_list, LAMBDA cat : Get(cat, "category", <<>>) # STAPLES_LITERAL)

\* filter_staples(shopping_list): the categories that are not staples, in order.
RECURSIVE filter_staples(_)
filter_staples(shopping_list) ==
    IF shopping_list = <<>> THEN <<>>
    ELSE LET cat == Head(shopping_list)
             rest == filter_staples(Tail(shopping_list))
         IN IF ~IsStaples(cat) THEN <<cat>> \o rest ELSE rest

\* The rendering of one quantity entry, "" when format_quantity skips it:
\* only an entry of type 'number' with a truthy value is rendered.
RenderQuantity(qty) ==
    IF qty.type = "number" /\ qty.num # 0
    THEN IF qty.unit # "" THEN ToString(qty.num) \o " " \o qty.unit
         ELSE ToString(qty.num)
    ELSE ""

\* ", ".join(parts)
RECURSIVE Join(_)
Join(parts) ==
    IF parts = <<>> THEN ""
    ELSE IF Len(parts) = 1 THEN parts[1]
    ELSE parts[1] \o ", " \o Join(Tail(parts))

\* format_quantity(quantity_list)
format_quantity(quantity_list) ==
    Join(SelectSeq([i \in 1..Len(quantity_list) |-> RenderQuantity(quantity_list[i])],
                   LAMBDA part : part # ""))

(***************************************************************************)
(* The command line, the recipe tree and what the user can type.           *)
(***************************************************************************)
\* A recipe reference `path` or `path:suffix`.
NoSuffix == <<"<no suffix>">>

\* No line was typed yet at the prompt (the local is unbound).
NoLine == <<"<no line>">>
Ref(path, suffix) == [path |-> path, suffix |-> suffix]

\* The positional arguments a run can be given.
ArgRefs ==
    { Ref("soup.cook", sfx) : sfx \in {NoSuffix, <<"2">>, <<"0">>, <<"a", "b", "c">>} }

\* sys.argv, parsed: the three flags and the positional arguments.
ArgvChoices ==
    [dry_run : BOOLEAN, list : BOOLEAN, include_staples : BOOLEAN,
     recipes : SeqsOf(ArgRefs, 0, MaxArgs)]

\* get_kitchens of the recipe tree: the kitchens that hold recipes, sorted.
Kitchens == <<"italian", "soups">>

\* get_recipes_in_kitchen: the (file name, display name) pairs, sorted.
get_recipes_in_kitchen(kitchen) ==
    IF kitchen = "italian"
    THEN << <<"carbonara.cook", "Carbonara">>, <<"pasta-al-forno.cook", "Pasta Al Forno">> >>
    ELSE << <<"soup.cook", "Soup">> >>

\* The (value, display) pairs of the kitchen menu (line 419).
KitchenItems(kitchens) == [i \in 1..Len(kitchens) |-> <<kitchens[i], kitchens[i]>>]

\* The lines typed at a numbered menu.
MenuInputs ==
    { <<"q">>, <<"Q">>, <<"b">>, <<"0">>, <<"1">>, <<" ", "2", " ">>, <<"3">>,
      <<"-", "1">>, <<"a", "b", "c">>, <<>> }

\* The lines typed at the scale prompt.
ScaleInputs ==
    { <<>>, <<"1">>, <<"2">>, <<"0">>, <<"-", "1">>, <<"a", "b", "c">>,
      <<"n", "a", "n">>, <<"q">> }

\* The keys pressed at a (y/n) prompt.
Keys == { <<"y">>, <<"Y">>, <<"n">>, <<"N">>, <<"x">>, <<"q">> }

\* BRING_LIST_NAME, '' when it is not set.
ListNameChoices == { <<>>, <<"H", "O", "M", "E">> }

\* What loadLists can answer: up to MaxLists lists, the i-th with identifier i.
AccountListNames == { <<"H", "o", "m", "e">>, <<"W", "o", "r", "k">> }
ListCollections ==
    { [i \in 1..Len(ns) |-> [name |-> ns[i], listUuid |-> i]] :
        ns \in SeqsOf(AccountListNames, 0, MaxLists) }

(***************************************************************************)
(* The state of a run.                                                     *)
(***************************************************************************)
VARIABLES
    pc,                \* the blocking point the run is at, "exit" when it is over
    mode,              \* "direct" or "interactive" (which branch of main runs)
    args,              \* the parsed flags (argparse's args)
    recipes,           \* args.recipes, kept until the generator has ended
    credentials,       \* whether BRING_EMAIL and BRING_PASSWORD are both set
    term,              \* the terminal attributes: "cooked" or "raw"
    old_settings,      \* getch's old_settings, "" when no getch is running
    hint,              \* the last complaint of a prompt loop, "" when none
    choice,            \* select_from_list's choice: the last line typed at a menu
    scale_input,       \* get_scaling_factor's scale_input: the last line it refused
    selected_kitchen,  \* interactive_mode's locals, "" once the recipe is appended
    selected_recipe,   \* (line 464), after which the loop does not read them
    selected_recipes,  \* kept until the generator has ended
    another, send,     \* the keys read at the two (y/n) prompts, lower-cased
    cmd,               \* the recipe arguments of the running `cook` command
    gen_calls,         \* how many times `cook` was run
    generated,         \* what `cook` printed
    shopping_list,     \* main's / interactive_mode's shopping_list
    list_name,         \* add_to_bring's locals
    lists,
    list_uuid,
    ci, ii,            \* the category and the item the loop of line 194 is at
    total_items,
    logins,            \* how many times bring.login() was called
    attempts,          \* the calls of bring.saveItem, in order
    quantity, spec,    \* the argument and the result of format_quantity (lines 203-206)
    out,               \* what the run printed
    exit_status,       \* -1 while the run lasts
    uncaught           \* whether the run died of an uncaught exception

terminal == <<term, old_settings>>
typed_lines == <<choice, scale_input>>
formatted == <<quantity, spec>>
picker == <<hint, typed_lines, selected_kitchen, selected_recipe, selected_recipes, another>>
sink == <<list_name, lists, list_uuid, ci, ii, total_items, logins, attempts, formatted>>
gen == <<cmd, gen_calls, generated, shopping_list>>
keys == <<another, send>>
vars == <<pc, mode, args, recipes, credentials, terminal, picker, send, gen, sink, out,
          exit_status, uncaught>>

\* A printed line: its kind, and the number and the name it shows.
Msg(m) == [msg |-> m, n |-> 0, text |-> <<>>]
MsgN(m, n) == [msg |-> m, n |-> n, text |-> <<>>]
MsgT(m, t) == [msg |-> m, n |-> 0, text |-> t]

Init ==
    /\ pc = "main"
    /\ mode = "none"
    /\ \E a \in ArgvChoices :
          /\ args = [dry_run |-> a.dry_run, list |-> a.list,
                     include_staples |-> a.include_staples]
          /\ recipes = a.recipes
    /\ credentials \in BOOLEAN
    /\ term = "cooked"
    /\ old_settings = ""
    /\ hint = ""
    /\ choice = NoLine
    /\ scale_input = NoLine
    /\ selected_kitchen = ""
    /\ selected_recipe = ""
    /\ selected_recipes = <<>>
    /\ another = <<>>
    /\ send = <<>>
    /\ cmd = <<>>
    /\ gen_calls = 0
    /\ generated = <<>>
    /\ shopping_list = <<>>
    /\ list_name = <<>>
    /\ lists = <<>>
    /\ list_uuid = 0
    /\ ci = 0
    /\ ii = 0
    /\ total_items = 0
    /\ logins = 0
    /\ attempts = <<>>
    /\ quantity = <<>>
    /\ spec = ""
    /\ out = <<>>
    /\ exit_status = -1
    /\ uncaught = FALSE

\* sys.exit(status), or the return of main (status 0), after printing `printed`.
Exit(status, printed) ==
    /\ pc' = "exit"
    /\ exit_status' = status
    /\ out' = out \o printed
    /\ uncaught' = FALSE

\* The top of the loop of line 407: get_kitchens, then the kitchen menu.
EnterSelectKitchen ==
    \E kitchens \in {<<>>, Kitchens} :
        IF kitchens = <<>>
        THEN Exit(1, <<Msg("Error: No recipe directories found!")>>)
        ELSE /\ pc' = "SelectKitchen"
             /\ UNCHANGED <<out, exit_status, uncaught>>

\* main, up to its first blocking point (lines 534-606).
Main ==
    /\ pc = "main"
    /\ IF recipes = <<>>
       THEN /\ mode' = "interactive"
            /\ EnterSelectKitchen
            /\ UNCHANGED <<cmd, gen_calls>>
       ELSE /\ mode' = "direct"
            /\ pc' = "generating"
            /\ cmd' = recipes
            /\ gen_calls' = gen_calls + 1
            /\ out' = Append(out, Msg("Generating shopping list from recipes..."))
            /\ UNCHANGED <<exit_status, uncaught>>
    /\ UNCHANGED <<args, recipes, credentials, terminal, picker, send, generated,
                   shopping_list, sink>>

\* select_from_list without its test for 'q': the line goes to int().
select_from_list_without_quit(items, typed, allow_back) ==
    LET stripped == Strip(typed)
        idx == ParseInt(stripped)
    IN  IF Lower(stripped) = <<"b">> /\ allow_back THEN [kind |-> "back", value |-> ""]
        ELSE IF idx = IntError THEN [kind |-> "invalid", value |-> ""]
        ELSE IF 0 <= idx.n - 1 /\ idx.n - 1 < Len(items)
             THEN [kind |-> "value", value |-> items[idx.n][1]]
             ELSE [kind |-> "range", value |-> ""]

\* select_from_list taking the number typed for a 0-based index.
select_from_list_zero_based(items, typed, allow_back) ==
    LET stripped == Strip(typed)
        idx == ParseInt(stripped)
    IN  IF Lower(stripped) = <<"q">> THEN [kind |-> "quit", value |-> ""]
        ELSE IF Lower(stripped) = <<"b">> /\ allow_back THEN [kind |-> "back", value |-> ""]
        ELSE IF idx = IntError THEN [kind |-> "invalid", value |-> ""]
        ELSE IF 0 <= idx.n /\ idx.n < Len(items)
             THEN [kind |-> "value", value |-> items[idx.n + 1][1]]
             ELSE [kind |-> "range", value |-> ""]

\* One pass of the loop of select_from_list (lines 312-333) on the line typed:
\* what the pass ends with, and the value it returns.
select_from_list(items, typed, allow_back) ==
    LET stripped == Strip(typed)
        idx == ParseInt(stripped)
    IN  IF Lower(stripped) = <<"q">> THEN [kind |-> "quit", value |-> ""]
        ELSE IF Lower(stripped) = <<"b">> /\ allow_back THEN [kind |-> "back", value |-> ""]
        ELSE IF idx = IntError THEN [kind |-> "invalid", value |-> ""]
        ELSE IF 0 <= idx.n - 1 /\ idx.n - 1 < Len(items)
             THEN [kind |-> "value", value |-> items[idx.n][1]]
             ELSE [kind |-> "range", value |-> ""]

\* The kitchen menu (lines 420-434): a line is typed at its prompt.
SelectKitchen ==
    /\ pc = "SelectKitchen"
    /\ \E typed \in MenuInputs :
          LET r == select_from_list(KitchenItems(Kitchens), typed, FALSE)
          IN  /\ choice' = Strip(typed)
              /\ CASE r.kind = "quit" ->
                     /\ Exit(0, <<>>)
                     /\ UNCHANGED <<hint, selected_kitchen>>
                [] r.kind = "value" ->
                     /\ pc' = "SelectRecipe"
                     /\ selected_kitchen' = r.value
                     /\ hint' = ""
                     /\ UNCHANGED <<out, exit_status, uncaught>>
                [] r.kind = "invalid" ->
                     /\ hint' = "Please enter a valid number"
                     /\ UNCHANGED <<pc, selected_kitchen, out, exit_status, uncaught>>
                [] OTHER ->
                     /\ hint' = "Please enter a number between 1 and len(items)"
                     /\ UNCHANGED <<pc, selected_kitchen, out, exit_status, uncaught>>
    /\ UNCHANGED <<mode, args, recipes, credentials, terminal, scale_input, selected_recipe,
                   selected_recipes, keys, gen, sink>>

\* The recipe menu (lines 439-457): a line is typed at its prompt.
SelectRecipe ==
    /\ pc = "SelectRecipe"
    /\ \E typed \in MenuInputs :
          LET r == select_from_list(get_recipes_in_kitchen(selected_kitchen), typed, TRUE)
          IN  /\ choice' = Strip(typed)
              /\ CASE r.kind = "quit" ->
                     /\ Exit(0, <<>>)
                     /\ UNCHANGED <<hint, selected_recipe>>
                [] r.kind = "back" ->
                     /\ EnterSelectKitchen
                     /\ hint' = ""
                     /\ UNCHANGED selected_recipe
                [] r.kind = "value" ->
                     /\ pc' = "SelectScale"
                     /\ selected_recipe' = r.value
                     /\ hint' = ""
                     /\ UNCHANGED <<out, exit_status, uncaught>>
                [] r.kind = "invalid" ->
                     /\ hint' = "Please enter a valid number"
                     /\ UNCHANGED <<pc, selected_recipe, out, exit_status, uncaught>>
                [] OTHER ->
                     /\ hint' = "Please enter a number between 1 and len(items)"
                     /\ UNCHANGED <<pc, selected_recipe, out, exit_status, uncaught>>
    /\ UNCHANGED <<mode, args, recipes, credentials, terminal, scale_input, selected_kitchen,
                   selected_recipes, keys, gen, sink>>

\* One pass of the loop of get_scaling_factor (lines 350-363) on the line typed:
\* the scale it returns, or the complaint it prints before it asks again.
get_scaling_factor(typed) ==
    LET stripped == Strip(typed)
        scale == ParseFloat(stripped)
    IN  IF stripped = <<>> THEN [kind |-> "value", scale |-> Num(10), hint |-> ""]
        ELSE IF scale = ValueError
             THEN [kind |-> "again", scale |-> NaN, hint |-> "Please enter a valid number"]
        ELSE IF FloatLeqZero(scale)
             THEN [kind |-> "again", scale |-> NaN, hint |-> "Scaling factor must be positive"]
        ELSE [kind |-> "value", scale |-> scale, hint |-> ""]

\* next(d for r, d in recipes if r == selected_recipe) of line 451.
DisplayOf(kitchen, file) ==
    LET rs == get_recipes_in_kitchen(kitchen)
    IN  rs[CHOOSE i \in 1..Len(rs) : rs[i][1] = file /\ \A j \in 1..(i - 1) : rs[j][1] # file][2]

\* The entry with ":scale" added to the path whatever the scale.
SelectedEntryAlwaysScaled(kitchen, file, scale) ==
    [path |-> Ref(kitchen \o "/" \o file, FormatFloat(scale)),
     display |-> kitchen \o "/" \o DisplayOf(kitchen, file),
     scale |-> scale]

\* The entry lines 459-468 append for a recipe and its scale.
SelectedEntry(kitchen, file, scale) ==
    [path |-> Ref(kitchen \o "/" \o file,
                  IF FloatNeqOne(scale) THEN FormatFloat(scale) ELSE NoSuffix),
     display |-> kitchen \o "/" \o DisplayOf(kitchen, file),
     scale |-> scale]

\* selected_recipes = [entry] in place of the append.
selected_recipes_replace(selection, entry) == <<entry>>

\* selected_recipes.append(entry) of line 464.
selected_recipes_append(selection, entry) == Append(selection, entry)

\* tty.setraw(fd) of line 233.
setraw(attributes) == "raw"

\* A getch without its finally clause: the terminal attributes stay.
getch_no_finally(attributes, old) == attributes

\* termios.tcsetattr(fd, termios.TCSADRAIN, old_settings) in the finally
\* clause of getch (lines 235-236).
getch_finally(attributes, old) == old

\* getch is called (lines 230-233): it keeps the attributes of the terminal
\* and puts it in raw mode for its read.
GetchStarts ==
    /\ old_settings' = term
    /\ term' = setraw(term)

\* The read of getch has returned a key (lines 234-237).
GetchReturns ==
    /\ term' = getch_finally(term, old_settings)
    /\ old_settings' = ""

\* getch has returned a key that its caller's loop refuses: it is called again.
GetchAgain ==
    /\ old_settings' = getch_finally(term, old_settings)
    /\ term' = setraw(old_settings')

\* The scale prompt (lines 457-482): a line is typed; an accepted scale adds
\* the recipe to the selection and asks "Add Another Recipe?", whose getch
\* puts the terminal in raw mode and waits for a key.
SelectScale ==
    /\ pc = "SelectScale"
    /\ \E typed \in ScaleInputs :
          LET r == get_scaling_factor(typed)
          IN  IF r.kind = "again"
              THEN /\ hint' = r.hint
                   /\ scale_input' = Strip(typed)
                   /\ UNCHANGED <<pc, terminal, choice, selected_kitchen, selected_recipe,
                                  selected_recipes, out>>
              ELSE /\ pc' = "AskAddAnother"
                   /\ hint' = ""
                   /\ selected_recipes' =
                          selected_recipes_append(selected_recipes,
                                 SelectedEntry(selected_kitchen, selected_recipe, r.scale))
                   /\ selected_kitchen' = ""
                   /\ selected_recipe' = ""
                   /\ choice' = NoLine
                   /\ scale_input' = NoLine
                   /\ GetchStarts
                   /\ UNCHANGED out
    /\ UNCHANGED <<mode, args, recipes, credentials, keys, gen, sink, exit_status, uncaught>>

\* The recipe arguments of the `cook` command of line 78 in interactive mode
\* (line 498).
RecipePaths(selection) == [i \in 1..Len(selection) |-> selection[i].path]

\* A loop that ends on any key.
AcceptsAnyKey(key) == TRUE

\* Whether the loops of lines 481-485 and 521-525 end on the key read.
AcceptsKey(key) == key \in {<<"y">>, <<"n">>}

\* The "Add Another Recipe?" prompt (lines 481-499): a key is pressed.  getch
\* restores the terminal; any key but y and n calls getch again.
AskAddAnother ==
    /\ pc = "AskAddAnother"
    /\ \E key \in Keys :
          /\ another' = Lower(key)
          /\ IF ~AcceptsKey(another')
             THEN /\ GetchAgain
                  /\ UNCHANGED <<pc, cmd, gen_calls, out, exit_status, uncaught>>
             ELSE IF another' = <<"y">>
             THEN /\ Len(selected_recipes) < MaxRecipes
                  /\ GetchReturns
                  /\ EnterSelectKitchen
                  /\ UNCHANGED <<cmd, gen_calls>>
             ELSE /\ GetchReturns
                  /\ IF selected_recipes = <<>>
                     THEN /\ Exit(0, <<Msg("No recipes selected.")>>)
                          /\ UNCHANGED <<cmd, gen_calls>>
                     ELSE /\ pc' = "generating"
                          /\ cmd' = RecipePaths(selected_recipes)
                          /\ gen_calls' = gen_calls + 1
                          /\ out' = Append(out, Msg("Generating Shopping List"))
                          /\ UNCHANGED <<exit_status, uncaught>>
    /\ UNCHANGED <<mode, args, recipes, credentials, hint, typed_lines, selected_kitchen,
                   selected_recipe, selected_recipes, send, generated, shopping_list, sink>>

\* The failures of generate_shopping_list (lines 89-98): each prints its
\* message and exits with status 1.
GeneratorFailures ==
    { "Error generating shopping list", "Error parsing shopping list JSON",
      "Error: 'cook' command not found" }

\* generate_shopping_list returning None after its message in place of
\* sys.exit(1): the caller takes the list for an empty one.
GeneratorFailsAndReturns ==
    /\ pc = "generating"
    /\ \E failure \in GeneratorFailures :
          Exit(0, <<Msg(failure), Msg("No items found in shopping list.")>>)
    /\ cmd' = <<>>
    /\ recipes' = <<>>
    /\ selected_recipes' = <<>>
    /\ UNCHANGED <<mode, args, credentials, terminal, hint, typed_lines, selected_kitchen,
                   selected_recipe, keys, gen_calls, generated, shopping_list, sink>>

GeneratorFails ==
    /\ pc = "generating"
    /\ \E failure \in GeneratorFailures : Exit(1, <<Msg(failure)>>)
    /\ cmd' = <<>>
    /\ recipes' = <<>>
    /\ selected_recipes' = <<>>
    /\ UNCHANGED <<mode, args, credentials, terminal, hint, typed_lines, selected_kitchen,
                   selected_recipe, keys, gen_calls, generated, shopping_list, sink>>

\* next(cat for cat in shopping_list if ... == 'staples', None) of lines 506, 615:
\* the index of the first staples category, 0 when there is none.
StaplesCategory(sl) ==
    IF \E i \in 1..Len(sl) : IsStaples(sl[i])
    THEN CHOOSE i \in 1..Len(sl) : IsStaples(sl[i]) /\ \A j \in 1..(i - 1) : ~IsStaples(sl[j])
    ELSE 0

\* What lines 506-510 and 615-619 print: "Filtered N staple item(s)".
FilteredMessage(sl) ==
    LET i == StaplesCategory(sl)
    IN  IF i # 0 /\ Len(sl[i].items) > 0
        THEN <<MsgN("Filtered N staple item(s)", Len(sl[i].items))>>
        ELSE <<>>

\* load_config (lines 41-58), then add_to_bring up to bring.login() (lines
\* 156-163), after `printed` was printed.  DOTENV_AVAILABLE, BRING_API_AVAILABLE
\* and BRING_LIST_NAME are read here.
CallSink(printed) ==
    \E dotenv \in BOOLEAN, api \in BOOLEAN, name \in ListNameChoices :
        IF ~dotenv
        THEN /\ Exit(1, printed \o <<Msg("Error: python-dotenv not installed")>>)
             /\ UNCHANGED list_name
        ELSE IF ~credentials
        THEN /\ Exit(1, printed \o <<Msg("Error: BRING_EMAIL and BRING_PASSWORD must be set")>>)
             /\ UNCHANGED list_name
        ELSE IF ~api
        THEN /\ Exit(1, printed \o <<Msg("Error: python-bring-api not installed")>>)
             /\ list_name' = name
        ELSE /\ pc' = "login"
             /\ list_name' = name
             /\ out' = out \o printed
             /\ UNCHANGED <<exit_status, uncaught>>

\* main after generate_shopping_list has returned (lines 608-648).
DirectAfterGenerate(result) ==
    IF result = <<>>
    THEN /\ Exit(0, <<Msg("No items found in shopping list.")>>)
         /\ shopping_list' = result
         /\ UNCHANGED <<terminal, list_name>>
    ELSE LET filtered == IF ~args.include_staples THEN filter_staples(result) ELSE result
             printed == (IF ~args.include_staples THEN FilteredMessage(result) ELSE <<>>)
                        \o (IF args.list \/ args.dry_run THEN <<Msg("Shopping List:")>>
                            ELSE <<>>)
         IN  /\ shopping_list' = filtered
             /\ UNCHANGED terminal
             /\ IF ~args.dry_run
                THEN CallSink(printed)
                ELSE /\ Exit(0, printed \o <<Msg("Dry run mode - items were not added")>>)
                     /\ UNCHANGED list_name

\* interactive_mode after generate_shopping_list has returned (lines 501-522):
\* it ends at the getch of the "Send to Bring!" prompt.
InteractiveAfterGenerate(result) ==
    IF result = <<>>
    THEN /\ Exit(0, <<Msg("No items found in shopping list.")>>)
         /\ shopping_list' = result
         /\ UNCHANGED <<terminal, list_name>>
    ELSE /\ shopping_list' = filter_staples(result)
         /\ out' = out \o FilteredMessage(result)
                      \o <<Msg("SHOPPING LIST PREVIEW"), Msg("Send to Bring! Shopping List?")>>
         /\ pc' = "AskSend"
         /\ GetchStarts
         /\ UNCHANGED <<list_name, exit_status, uncaught>>

\* The `cook` command ends with status 0 and prints a list of categories.
GeneratorReturns ==
    /\ pc = "generating"
    /\ \E result \in GenResults :
          /\ generated' = result
          /\ IF mode = "direct" THEN DirectAfterGenerate(result)
             ELSE InteractiveAfterGenerate(result)
    /\ cmd' = <<>>
    /\ recipes' = <<>>
    /\ selected_recipes' = <<>>
    /\ UNCHANGED <<mode, args, credentials, hint, typed_lines, selected_kitchen,
                   selected_recipe, keys, gen_calls, lists, list_uuid, ci, ii, total_items,
                   logins, attempts, formatted>>

\* The "Send to Bring!" prompt (lines 521-531): a key is pressed.
AskSend ==
    /\ pc = "AskSend"
    /\ \E key \in Keys :
          /\ send' = Lower(key)
          /\ IF ~AcceptsKey(send')
             THEN /\ GetchAgain
                  /\ UNCHANGED <<pc, list_name, out, exit_status, uncaught>>
             ELSE IF send' = <<"y">>
             THEN /\ GetchReturns
                  /\ CallSink(<<>>)
             ELSE /\ GetchReturns
                  /\ Exit(0, <<Msg("Shopping list not sent to Bring!")>>)
                  /\ UNCHANGED list_name
    /\ UNCHANGED <<mode, args, recipes, credentials, picker, gen, lists, list_uuid, ci, ii,
                   total_items, logins, attempts, formatted>>

\* The target list of lines 174-184: the index of the first list whose name
\* equals list_name case-insensitively, 0 when the loop of line 176 finds none.
FindListCaseSensitive(ls, name, i) ==
    IF \E k \in i..Len(ls) : ls[k].name = name
    THEN CHOOSE k \in i..Len(ls) : ls[k].name = name /\ \A j \in i..(k - 1) : ls[j].name # name
    ELSE 0

RECURSIVE FindList(_, _, _)
FindList(ls, name, i) ==
    IF i > Len(ls) THEN 0
    ELSE IF Lower(ls[i].name) = Lower(name) THEN i
    ELSE FindList(ls, name, i + 1)

\* The index of target_list in lists.
TargetList(ls, name) ==
    IF name # <<>>
    THEN IF FindList(ls, name, 1) # 0 THEN FindList(ls, name, 1) ELSE 1
    ELSE 1

\* What lines 180-181 print.
TargetWarning(ls, name) ==
    IF name # <<>> /\ FindList(ls, name, 1) = 0
    THEN <<MsgT("Warning: List not found. Using first available list.", name)>>
    ELSE <<>>

\* The position <<category, item>> of the first item of sl at or after the
\* i-th item of the c-th category, <<Len(sl) + 1, 1>> when there is none: how
\* the loops of lines 194 and 201 advance.
RECURSIVE ItemFrom(_, _, _)
ItemFrom(sl, c, i) ==
    IF c > Len(sl) THEN <<Len(sl) + 1, 1>>
    ELSE IF i <= Len(sl[c].items) THEN <<c, i>>
    ELSE ItemFrom(sl, c + 1, 1)

\* bring.login() returns or raises (lines 162-163, 222-224).
Login ==
    /\ pc = "login"
    /\ logins' = logins + 1
    /\ \E ok \in BOOLEAN :
          IF ok
          THEN /\ pc' = "loadLists"
               /\ UNCHANGED <<out, exit_status, uncaught>>
          ELSE Exit(1, <<Msg("Error connecting to Bring!")>>)
    /\ UNCHANGED <<mode, args, recipes, credentials, terminal, picker, send, gen, list_name, lists,
                   list_uuid, ci, ii, total_items, attempts, formatted>>

\* The end of add_to_bring (lines 219-220) and of the run.
Finish(printed, total) ==
    Exit(0, printed \o <<MsgN("Successfully added N items", total)>>)

\* bring.loadLists() returns or raises; the target list is selected and the
\* loop goes to the first item (lines 166-210).
LoadLists ==
    /\ pc = "loadLists"
    /\ \/ /\ Exit(1, <<Msg("Error connecting to Bring!")>>)
          /\ UNCHANGED <<lists, list_uuid, ci, ii>>
       \/ \E answer \in ListCollections :
             /\ lists' = answer
             /\ IF answer = <<>>
                THEN /\ Exit(1, <<Msg("Error: No shopping lists found")>>)
                     /\ UNCHANGED <<list_uuid, ci, ii>>
                ELSE LET target == TargetList(answer, list_name)
                         first == ItemFrom(shopping_list, 1, 1)
                         printed == TargetWarning(answer, list_name)
                                    \o <<MsgT("Adding items to Bring! list", answer[target].name)>>
                     IN  /\ list_uuid' = answer[target].listUuid
                         /\ ci' = first[1]
                         /\ ii' = first[2]
                         /\ IF first[1] > Len(shopping_list)
                            THEN Finish(printed, total_items)
                            ELSE /\ pc' = "saveItem"
                                 /\ out' = out \o printed
                                 /\ UNCHANGED <<exit_status, uncaught>>
    /\ UNCHANGED <<mode, args, recipes, credentials, terminal, picker, send, gen, list_name,
                   total_items, logins, attempts, formatted>>

\* total_items counting the calls of saveItem, not the calls that returned.
CountsEveryAttempt(total, ok) == total + 1

\* total_items after a call of saveItem: line 215 is reached only when the
\* call of line 210 did not raise.
TotalAfter(total, ok) == IF ok THEN total + 1 ELSE total

\* bring.saveItem(list_uuid, item_name, spec) returns or raises an Exception
\* (lines 201-220); the loop goes to the next item.
SaveItem ==
    /\ pc = "saveItem"
    /\ \E ok \in BOOLEAN :
          LET category == shopping_list[ci]
              category_name == Get(category, "category", <<"o", "t", "h", "e", "r">>)
              item == category.items[ii]
              rendered == format_quantity(item.quantity)
              printed == IF ok THEN <<>> ELSE <<Msg("Failed to add " \o item.name)>>
              total == TotalAfter(total_items, ok)
              next == ItemFrom(shopping_list, ci, ii + 1)
          IN  /\ quantity' = item.quantity
              /\ spec' = rendered
              /\ attempts' = Append(attempts,
                                    [list |-> list_uuid, name |-> item.name, spec |-> rendered,
                                     category |-> category_name, ok |-> ok])
              /\ total_items' = total
              /\ ci' = next[1]
              /\ ii' = next[2]
              /\ IF next[1] > Len(shopping_list)
                 THEN Finish(printed, total)
                 ELSE /\ out' = out \o printed
                      /\ UNCHANGED <<pc, exit_status, uncaught>>
    /\ UNCHANGED <<mode, args, recipes, credentials, terminal, picker, send, gen, list_name, lists,
                   list_uuid, logins>>

\* The points at which the run waits: for the terminal, for `cook`, for the
\* Bring! service.
BlockingPoints ==
    { "SelectKitchen", "SelectRecipe", "SelectScale", "AskAddAnother", "AskSend",
      "generating", "login", "loadLists", "saveItem" }

\* SIGINT while the run waits: KeyboardInterrupt is raised there.  It is no
\* Exception, so the handlers of lines 216 and 222 let it pass, and getch's
\* finally restores the terminal; main catches it around interactive_mode
\* only (lines 537-541, 597-601).  Uncaught, it ends the run with a traceback
\* and the status of a process killed by SIGINT.
Interrupt ==
    /\ pc \in BlockingPoints
    /\ IF old_settings # "" THEN GetchReturns ELSE UNCHANGED terminal
    /\ IF mode = "interactive"
       THEN Exit(0, <<Msg("Cancelled by user.")>>)
       ELSE /\ pc' = "exit"
            /\ exit_status' = 130
            /\ uncaught' = TRUE
            /\ UNCHANGED out
    /\ UNCHANGED <<mode, args, recipes, credentials, picker, send, gen, sink>>

Next ==
    \/ Main
    \/ SelectKitchen
    \/ SelectRecipe
    \/ SelectScale
    \/ AskAddAnother
    \/ GeneratorFails
    \/ GeneratorReturns
    \/ AskSend
    \/ Login
    \/ LoadLists
    \/ SaveItem
    \/ Interrupt

Spec == Init /\ [][Next]_vars

(***************************************************************************)
(* filter_staples and format_quantity on their own: one call on an         *)
(* argument drawn from the lists below, outside a run of main.  The list   *)
(* passed to filter_staples is held in `generated`, its result in          *)
(* `shopping_list`; the argument and the result of format_quantity are     *)
(* `quantity` and `spec`.                                                  *)
(***************************************************************************)
\* The longest list passed to filter_staples, and to format_quantity.
MaxFilterLen == 3
MaxQuantityLen == 2

STAPLES == <<"S", "T", "A", "P", "L", "E", "S">>
Staple == <<"S", "t", "a", "p", "l", "e">>

\* The names of the categories passed to filter_staples; NoKey is a category
\* without the key 'category'.
FilterNames == {Staples, staples, STAPLES, Staple, Pasta, NoKey}

\* The lists passed to filter_staples: the i-th category holds one item,
\* named after i.
FilterInputs ==
    { [i \in 1..Len(ns) |->
          [category |-> ns[i],
           items |-> <<[name |-> "item" \o ToString(i), quantity |-> <<>>]>>]] :
      ns \in SeqsOf(FilterNames, 0, MaxFilterLen) }

\* The quantity entries passed to format_quantity: numbers (0 among them)
\* and texts, with and without a unit.
QuantityEntries ==
    [type : {"number"}, num : {0, 2}, unit : {"", "kg"}]
        \cup [type : {"text"}, num : {0}, unit : {"", "kg"}]

QuantityInputs == SeqsOf(QuantityEntries, 0, MaxQuantityLen)

FunctionInit ==
    /\ \/ /\ pc = "filter_staples"
          /\ generated \in FilterInputs
          /\ quantity = <<>>
       \/ /\ pc = "format_quantity"
          /\ generated = <<>>
          /\ quantity \in QuantityInputs
    /\ shopping_list = <<>>
    /\ spec = ""
    /\ mode = "none"
    /\ args = [dry_run |-> FALSE, list |-> FALSE, include_staples |-> FALSE]
    /\ recipes = <<>>
    /\ credentials = FALSE
    /\ term = "cooked"
    /\ old_settings = ""
    /\ hint = ""
    /\ choice = NoLine
    /\ scale_input = NoLine
    /\ selected_kitchen = ""
    /\ selected_recipe = ""
    /\ selected_recipes = <<>>
    /\ another = <<>>
    /\ send = <<>>
    /\ cmd = <<>>
    /\ gen_calls = 0
    /\ list_name = <<>>
    /\ lists = <<>>
    /\ list_uuid = 0
    /\ ci = 0
    /\ ii = 0
    /\ total_items = 0
    /\ logins = 0
    /\ attempts = <<>>
    /\ out = <<>>
    /\ exit_status = -1
    /\ uncaught = FALSE

\* What a call of the two functions leaves alone.
FunctionFrame ==
    UNCHANGED <<mode, args, recipes, credentials, terminal, picker, send, cmd, gen_calls,
                list_name, lists, list_uuid, ci, ii, total_items, logins, attempts, out,
                exit_status, uncaught>>

\* shopping_list = filter_staples(shopping_list) (lines 511, 620), the list
\* passed being the one the generator returned.
CallFilterStaples ==
    /\ pc = "filter_staples"
    /\ shopping_list' = filter_staples(generated)
    /\ pc' = "filtered"
    /\ UNCHANGED <<generated, formatted>>
    /\ FunctionFrame

\* filter_staples called on its own result.
CallFilterStaplesAgain ==
    /\ pc = "filtered"
    /\ generated' = shopping_list
    /\ shopping_list' = filter_staples(shopping_list)
    /\ pc' = "filtered again"
    /\ UNCHANGED formatted
    /\ FunctionFrame

\* spec = format_quantity(quantity) (line 206).
CallFormatQuantity ==
    /\ pc = "format_quantity"
    /\ spec' = format_quantity(quantity)
    /\ pc' = "formatted"
    /\ UNCHANGED <<generated, shopping_list, quantity>>
    /\ FunctionFrame

FunctionNext ==
    \/ CallFilterStaples
    \/ CallFilterStaplesAgain
    \/ CallFormatQuantity

FunctionSpec == FunctionInit /\ [][FunctionNext]_vars

(***************************************************************************)
(* The claims.                                                             *)
(***************************************************************************)
\* Whether the run has called the Bring! service, or is calling it.
SinkContacted == logins > 0 \/ pc \in {"login", "loadLists", "saveItem"}

\* Whether the run printed a line of the kind m.
Printed(m) == \E k \in 1..Len(out) : out[k].msg = m

\* Whether the run was ended by an interrupt.
Interrupted == uncaught \/ Printed("Cancelled by user.")

\* Whether a category's name is "staples" in some spelling.
NamedStaples(cat) ==
    /\ Len(cat.category) = 7
    /\ \A k \in 1..7 :
          \/ cat.category[k] = <<"s", "t", "a", "p", "l", "e", "s">>[k]
          \/ cat.category[k] = <<"S", "T", "A", "P", "L", "E", "S">>[k]

\* C1: with --dry-run the run never authenticates against the list service and
\* never calls saveItem, with positional arguments or in the picker.
ClaimC1_DryRunNeverSubmits == args.dry_run => ~SinkContacted /\ attempts = <<>>

\* C2: with --include-staples every category the generator returned is in the
\* list the run previews and submits, in direct mode and in the picker.
ClaimC2_IncludeStaplesKeepsAll ==
    args.include_staples =>
        \A c \in 1..Len(generated) :
            \E k \in 1..Len(shopping_list) : shopping_list[k] = generated[c]

\* C3: without --include-staples no item of a category named "staples" (in any
\* spelling) is passed to saveItem, in direct mode and in the picker.
ClaimC3_StaplesNeverSubmitted ==
    ~args.include_staples =>
        \A k \in 1..Len(attempts) :
            /\ ~NamedStaples([category |-> attempts[k].category])
            /\ \A c \in 1..Len(generated) :
                  NamedStaples(generated[c]) =>
                      \A j \in 1..Len(generated[c].items) :
                          generated[c].items[j].name # attempts[k].name

\* A run without --include-staples whose generator returned a staples category
\* with items, and which has called saveItem.
WitnessC3 ==
    /\ ~args.include_staples
    /\ \E c \in 1..Len(generated) : NamedStaples(generated[c]) /\ generated[c].items # <<>>
    /\ attempts # <<>>
    /\ pc = "exit"

\* The items of a shopping list in the order of the list, each with the
\* specification format_quantity gives it.
RECURSIVE FlatItems(_)
FlatItems(sl) ==
    IF sl = <<>> THEN <<>>
    ELSE [j \in 1..Len(Head(sl).items) |->
              [name |-> Head(sl).items[j].name,
               spec |-> format_quantity(Head(sl).items[j].quantity)]]
         \o FlatItems(Tail(sl))

\* The saveItem calls the service did not fail.
Succeeded == {k \in 1..Len(attempts) : attempts[k].ok}

\* C4: once add_to_bring has logged in and selected the list, saveItem is
\* called once for every item of the list, in list order, whatever calls
\* failed before; a failed call is reported; the count the run reports is the
\* number of calls that did not fail; and a run that is not interrupted ends
\* with status 0 after the last item.
ClaimC4_EveryItemAttempted ==
    lists # <<>> =>
        /\ Len(attempts) <= Len(FlatItems(shopping_list))
        /\ \A k \in 1..Len(attempts) :
              /\ attempts[k].name = FlatItems(shopping_list)[k].name
              /\ attempts[k].spec = FlatItems(shopping_list)[k].spec
              /\ ~attempts[k].ok => Printed("Failed to add " \o attempts[k].name)
        /\ total_items = Cardinality(Succeeded)
        /\ (pc = "exit" /\ ~Interrupted =>
              /\ Len(attempts) = Len(FlatItems(shopping_list))
              /\ exit_status = 0
              /\ out[Len(out)] = MsgN("Successfully added N items", Cardinality(Succeeded)))

\* A completed run whose first saveItem call failed and whose second did not.
WitnessC4 ==
    /\ pc = "exit"
    /\ ~Interrupted
    /\ Len(attempts) >= 2
    /\ ~attempts[1].ok
    /\ attempts[2].ok
    /\ exit_status = 0

\* The lists of the account whose name is the configured name, case aside.
NamedLikeTarget ==
    {i \in 1..Len(lists) :
        /\ Len(lists[i].name) = Len(list_name)
        /\ \A k \in 1..Len(list_name) :
              LowerChar(lists[i].name[k]) = LowerChar(list_name[k])}

\* The warnings about a list that was not found.
TargetWarnings ==
    {k \in 1..Len(out) : out[k].msg = "Warning: List not found. Using first available list."}

\* C5: of a non-empty list collection, add_to_bring chooses the first list
\* whose name equals the configured name case-insensitively, and the first
\* list when no name is configured or none matches; it warns, naming the
\* configured name, exactly when a name is configured and none matches; and
\* every saveItem call of the run is given the chosen list's identifier.
ClaimC5_TargetList ==
    IF lists = <<>> THEN TargetWarnings = {} /\ attempts = <<>>
    ELSE /\ IF list_name # <<>> /\ NamedLikeTarget # {}
            THEN /\ list_uuid \in {lists[i].listUuid : i \in NamedLikeTarget}
                 /\ \A i \in NamedLikeTarget : list_uuid <= lists[i].listUuid
                 /\ TargetWarnings = {}
            ELSE /\ list_uuid = lists[1].listUuid
                 /\ IF list_name # <<>>
                    THEN /\ Cardinality(TargetWarnings) = 1
                         /\ \A k \in TargetWarnings : out[k].text = list_name
                    ELSE TargetWarnings = {}
         /\ \A k \in 1..Len(attempts) : attempts[k].list = list_uuid

\* A run configured with HOME on an account whose lists are Work and Home, in
\* that order, after a saveItem call.
WitnessC5 ==
    /\ list_name = <<"H", "O", "M", "E">>
    /\ Len(lists) = 2
    /\ lists[1].name = <<"W", "o", "r", "k">>
    /\ lists[2].name = <<"H", "o", "m", "e">>
    /\ list_uuid = 2
    /\ attempts # <<>>

\* The scaling factor a recipe reference carries: 1.0 without a suffix.
ScaleOf(ref) == IF ref.suffix = NoSuffix THEN Num(10) ELSE ParseFloat(ref.suffix)

\* C6: every recipe reference given to the generator carries a scaling factor
\* greater than 0, from the picker's scale prompt or from the command line.
ClaimC6_ScalesPositive ==
    \A i \in 1..Len(cmd) : ScaleOf(cmd[i]).kind = "num" /\ ScaleOf(cmd[i]).tenths > 0

\* C7: an interrupt at a blocking point of the run, in direct mode or in the
\* picker, ends the run with the cancellation message and status 0, never
\* with an uncaught exception.
ClaimC7_InterruptCaught ==
    pc = "exit" /\ Interrupted =>
        /\ ~uncaught
        /\ exit_status = 0
        /\ out[Len(out)] = Msg("Cancelled by user.")

\* C8: in the picker, when the list is empty after the staples filter the
\* session ends: the "Send to Bring!" prompt is not shown and the service is
\* not called.
ClaimC8_EmptyListEndsSession ==
    mode = "interactive" /\ gen_calls > 0 /\ pc # "generating" /\ shopping_list = <<>> =>
        /\ pc = "exit"
        /\ ~Printed("Send to Bring! Shopping List?")
        /\ ~SinkContacted

\* Whether the run ended at load_config's check of the credentials.
CredentialsError == Printed("Error: BRING_EMAIL and BRING_PASSWORD must be set")

\* C9: without credentials, a run with --dry-run or --list that generated a
\* list (python-dotenv being installed) ends with status 0; a picker run answered 'n' at "Send to Bring!"
\* never checks the credentials; and without credentials the service is never
\* contacted, the run ending with a non-zero status at the check.
ClaimC9_CredentialsOnlyForSubmission ==
    /\ (~credentials /\ (args.dry_run \/ args.list) /\ generated # <<>>
            /\ pc = "exit" /\ ~Interrupted
            /\ ~Printed("Error: python-dotenv not installed")
        => exit_status = 0 /\ ~CredentialsError)
    /\ (send = <<"n">> => ~CredentialsError /\ ~SinkContacted)
    /\ (~credentials => ~SinkContacted /\ attempts = <<>>)
    /\ (CredentialsError => pc = "exit" /\ exit_status # 0)

\* Whether the lines of the kinds ms were printed in this order.
RECURSIVE PrintedInOrder(_, _)
PrintedInOrder(ms, from) ==
    IF ms = <<>> THEN TRUE
    ELSE \E k \in from..Len(out) :
            out[k].msg = Head(ms) /\ PrintedInOrder(Tail(ms), k + 1)

\* The categories of sl not named "staples", in the order of sl.
WithoutStaples(sl) == SelectSeq(sl, LAMBDA cat : ~NamedStaples(cat))

\* C10, in a state: in the picker the service is called only after the list
\* was generated, filtered and previewed and 'y' was answered at "Send to
\* Bring!"; after 'n' the run is over without a login or a saveItem call.
SinkAfterConfirmation ==
    /\ (mode = "interactive" /\ SinkContacted =>
            /\ send = <<"y">>
            /\ gen_calls = 1
            /\ shopping_list = WithoutStaples(generated)
            /\ PrintedInOrder(<<"Generating Shopping List", "SHOPPING LIST PREVIEW",
                                "Send to Bring! Shopping List?">>, 1))
    /\ (send = <<"n">> => pc = "exit" /\ exit_status = 0 /\ logins = 0 /\ attempts = <<>>)

\* C10, in a step: a key other than y and n read at "Send to Bring!" or at
\* "Add Another Recipe?" changes nothing but the key read, and the prompt
\* goes on waiting for a key.
OtherKeyChangesNothing ==
    /\ (pc = "AskSend" /\ send' # send /\ send' \notin {<<"y">>, <<"n">>} =>
            /\ pc' = "AskSend"
            /\ term' = "raw"
            /\ UNCHANGED <<mode, args, recipes, credentials, picker, gen, sink, out,
                           exit_status, uncaught>>)
    /\ (pc = "AskAddAnother" /\ another' # another /\ another' \notin {<<"y">>, <<"n">>} =>
            /\ pc' = "AskAddAnother"
            /\ term' = "raw"
            /\ UNCHANGED <<mode, args, recipes, credentials, hint, typed_lines, selected_kitchen,
                           selected_recipe, selected_recipes, send, gen, sink, out,
                           exit_status, uncaught>>)

\* C10: in the picker the service is called only after generation, filter,
\* preview and a 'y' at "Send to Bring!"; 'n' ends the run without a login or
\* a submission; any other key at either (y/n) prompt leaves the session as it
\* is, the prompt pending.
ClaimC10_SendOnlyAfterYes == []SinkAfterConfirmation /\ [][OtherKeyChangesNothing]_vars

\* A picker run whose generator returned a staples category, which was
\* answered 'y' at "Send to Bring!" and is submitting.
WitnessC10 ==
    /\ mode = "interactive"
    /\ send = <<"y">>
    /\ pc = "saveItem"
    /\ \E c \in 1..Len(generated) : NamedStaples(generated[c])

\* The run printed one of the failure messages of generate_shopping_list.
GeneratorFailed == \E failure \in GeneratorFailures : Printed(failure)

\* C11: when the generator fails (the tool is not found, it ends with a
\* status other than 0, or its output is no JSON), the run is over with a
\* status other than 0; the generator was run once only, and nothing the
\* run does after generation has happened: no preview, no credentials
\* check, no login, no submission.
ClaimC11_GeneratorFailureIsFatal ==
    GeneratorFailed =>
        /\ pc = "exit"
        /\ exit_status \notin {-1, 0}
        /\ gen_calls = 1
        /\ generated = <<>>
        /\ out[Len(out)].msg \in GeneratorFailures
        /\ \A m \in {"Shopping List:", "SHOPPING LIST PREVIEW",
                      "Send to Bring! Shopping List?", "No items found in shopping list.",
                      "Error: python-dotenv not installed",
                      "Error: BRING_EMAIL and BRING_PASSWORD must be set",
                      "Error: python-bring-api not installed"} : ~Printed(m)
        /\ send = <<>>
        /\ ~SinkContacted
        /\ attempts = <<>>

\* A picker run whose generator printed something that is no JSON.
WitnessC11 ==
    /\ mode = "interactive"
    /\ Printed("Error parsing shopping list JSON")
    /\ PrintedInOrder(<<"Generating Shopping List", "Error parsing shopping list JSON">>, 1)
    /\ pc = "exit"

\* The screens of the picker, and what follows its Finalize step.
PickerScreens == {"SelectKitchen", "SelectRecipe", "SelectScale", "AskAddAnother"}
AfterPicker == {"generating", "AskSend", "login", "loadLists", "saveItem"}

\* The selection after the step is the selection before it and one more
\* reference.
OneAppended ==
    /\ Len(selected_recipes') = Len(selected_recipes) + 1
    /\ SubSeq(selected_recipes', 1, Len(selected_recipes)) = selected_recipes

\* C12, in a step of a picker run.  A step that changes the screen is one of:
\* the start of the picker; the end of the run (quit, interrupt, no
\* kitchen); SelectKitchen to SelectRecipe; SelectRecipe to SelectScale;
\* SelectRecipe back to SelectKitchen on 'b'; SelectScale to AskAddAnother,
\* which appends exactly one reference; AskAddAnother to SelectKitchen on
\* 'y'; AskAddAnother to Finalize (the generator runs) on 'n'.  Every one
\* but the fourth leaves the selection as it is, and so does a step that
\* stays on its screen.
PickerStep ==
    /\ (mode' = "interactive" /\ pc' # pc /\ pc \notin AfterPicker =>
            \/ pc = "main" /\ pc' \in {"SelectKitchen", "exit"} /\ selected_recipes' = <<>>
            \/ pc \in PickerScreens /\ pc' = "exit" /\ UNCHANGED selected_recipes
            \/ pc = "SelectKitchen" /\ pc' = "SelectRecipe" /\ UNCHANGED selected_recipes
            \/ pc = "SelectRecipe" /\ pc' = "SelectScale" /\ UNCHANGED selected_recipes
            \/ /\ pc = "SelectRecipe" /\ pc' = "SelectKitchen"
               /\ Lower(choice') = <<"b">>
               /\ UNCHANGED selected_recipes
            \/ pc = "SelectScale" /\ pc' = "AskAddAnother" /\ OneAppended
            \/ /\ pc = "AskAddAnother" /\ pc' = "SelectKitchen"
               /\ another' = <<"y">>
               /\ UNCHANGED selected_recipes
            \/ /\ pc = "AskAddAnother" /\ pc' = "generating"
               /\ another' = <<"n">>
               /\ UNCHANGED selected_recipes)
    /\ (pc' = pc /\ pc \in PickerScreens => UNCHANGED selected_recipes)

\* C12: the picker moves between its screens along SelectKitchen,
\* SelectRecipe, SelectScale, AskAddAnother and from there to SelectKitchen
\* or to Finalize, and from SelectRecipe back to SelectKitchen, only; one
\* reference is appended per completed SelectScale and by nothing else.
ClaimC12_PickerTransitions == [][PickerStep]_vars

\* The picker was sent round a second time by 'y' and is in its Finalize
\* step, on 'n', with two references to different recipes.
WitnessC12 ==
    /\ mode = "interactive"
    /\ pc = "generating"
    /\ Len(selected_recipes) = 2
    /\ another = <<"n">>
    /\ selected_recipes[1].path # selected_recipes[2].path

\* The run is over with status 0 and never ran the generator nor called the
\* service.
QuitCleanly ==
    /\ pc = "exit"
    /\ exit_status = 0
    /\ gen_calls = 0
    /\ generated = <<>>
    /\ ~SinkContacted
    /\ attempts = <<>>

\* C13 as stated: once 'q' (or 'Q') is the line typed at the kitchen menu,
\* at the recipe menu or at the scale prompt, the run is over with status
\* 0, without a generator run and without a call of the service.
ClaimC13_QuitFromAnyScreen ==
    Lower(choice) = <<"q">> \/ Lower(scale_input) = <<"q">> => QuitCleanly

\* C13, amended: 'q' typed at the kitchen menu or at the recipe menu ends
\* the run at once with status 0, without a generator run and without a
\* call of the service; 'q' typed at the scale prompt is refused as no
\* number and the prompt asks again (the run then ends by an interrupt only).
ClaimC13_QuitFromMenus ==
    /\ (Lower(choice) = <<"q">> => QuitCleanly /\ ~Interrupted)
    /\ (Lower(scale_input) = <<"q">> =>
            \/ /\ pc = "SelectScale"
               /\ exit_status = -1
               /\ hint = "Please enter a valid number"
            \/ Interrupted /\ pc = "exit")

\* 'q' typed at the recipe menu of the second round, one recipe being
\* selected already.
WitnessC13 ==
    /\ Lower(choice) = <<"q">>
    /\ selected_kitchen # ""
    /\ Len(selected_recipes) = 1
    /\ pc = "exit"

\* The run applied the staples filter to what the generator returned.
FilterApplied ==
    /\ generated # <<>>
    /\ mode = "interactive" \/ (mode = "direct" /\ ~args.include_staples)

\* How many items the categories named staples (in any spelling) hold.
StapleItems(sl) ==
    SumTo([i \in 1..Len(sl) |-> IF NamedStaples(sl[i]) THEN Len(sl[i].items) ELSE 0], Len(sl))

\* C14: in a run that applies the staples filter, "Filtered N staple
\* item(s)" is printed exactly when the categories the filter removes hold
\* an item, and N is the number of items they hold together.
ClaimC14_FilteredCount ==
    FilterApplied =>
        /\ StapleItems(generated) > 0 <=> Printed("Filtered N staple item(s)")
        /\ \A k \in 1..Len(out) :
              out[k].msg = "Filtered N staple item(s)" => out[k].n = StapleItems(generated)

\* The positions of `given` whose category is not named staples in any
\* spelling; a category without a name is not.
KeptPositions(given) == {i \in 1..Len(given) : ~NamedStaples(given[i])}

\* `result` is `given` without its staples categories: it holds the
\* categories at the kept positions, each once, in their order.
IsGivenWithoutStaples(result, given) ==
    /\ Len(result) = Cardinality(KeptPositions(given))
    /\ \A i \in KeptPositions(given) :
          result[Cardinality({j \in KeptPositions(given) : j <= i})] = given[i]

\* C15: filter_staples returns the categories of its argument whose name,
\* lower-cased, is not "staples" (so "Staples" and "STAPLES" are removed, and
\* a category without a name is kept), in their order and unchanged; the
\* argument is as it was after the call; filtering the result again
\* changes nothing.
ClaimC15_FilterStaples ==
    /\ [](pc = "filtered" => IsGivenWithoutStaples(shopping_list, generated))
    /\ [](pc = "filtered again" => shopping_list = generated)
    /\ [][pc = "filter_staples" => generated' = generated]_vars

\* filter_staples was called on a list that holds a category named
\* "Staples", one without a name and one named "Staple", and returned the
\* last two.
WitnessC15 ==
    /\ pc = "filtered"
    /\ Len(generated) = 3
    /\ generated[1].category = Staples
    /\ generated[2].category = NoKey
    /\ generated[3].category = Staple
    /\ shopping_list = <<generated[2], generated[3]>>

\* The rendering of an entry that carries a number: "<value> <unit>" with a
\* unit, "<value>" without.
Rendering(entry) ==
    IF entry.unit # "" THEN ToString(entry.num) \o " " \o entry.unit
    ELSE ToString(entry.num)

\* The renderings of the entries of type number, whatever the number, in
\* order and joined by ", "; "" when there is none.
RECURSIVE JoinedRenderings(_)
JoinedRenderings(entries) ==
    IF entries = <<>> THEN ""
    ELSE LET rest == JoinedRenderings(Tail(entries))
         IN  IF Head(entries).type # "number" THEN rest
             ELSE IF rest = "" THEN Rendering(Head(entries))
             ELSE Rendering(Head(entries)) \o ", " \o rest

\* C16: format_quantity returns the renderings of exactly the entries that
\* carry a number, whatever the number, in order and joined by ", ", and ""
\* when no entry carries one.
ClaimC16_FormatQuantity == pc = "formatted" => spec = JoinedRenderings(quantity)

\* The step is neither an interrupt nor the end of the run by one.
NoInterrupt == ~Interrupted'

\* The line is the numeral of k.
IsNumeral(line, k) == line = <<ToString(k)>>

\* The step refuses the line typed: the picker stays on its screen, with a
\* complaint, and nothing else of the run changes.
Refused ==
    /\ pc' = pc
    /\ hint' # ""
    /\ exit_status' = -1
    /\ UNCHANGED <<mode, args, recipes, credentials, terminal, selected_kitchen,
                   selected_recipe, selected_recipes, keys, gen, sink, out, uncaught>>

\* C17 at a menu of n entries with their values, `chosen` being what the
\* picker holds as the entry chosen after the step and `next` the screen
\* that follows the menu.  Back ends the run when no kitchen is left.
MenuStep(values, allow_back, chosen, next) ==
    LET line == choice'
        n == Len(values)
    IN  IF \E k \in 1..n : IsNumeral(line, k)
        THEN \E k \in 1..n :
                 IsNumeral(line, k) /\ chosen = values[k] /\ pc' = next /\ exit_status' = -1
        ELSE IF Lower(line) = <<"q">> THEN pc' = "exit"
        ELSE IF Lower(line) = <<"b">> /\ allow_back
        THEN /\ pc' \in {"SelectKitchen", "exit"}
             /\ UNCHANGED <<selected_kitchen, selected_recipe, selected_recipes>>
        ELSE Refused

\* The values of the entries of the recipe menu of a kitchen.
RecipeFiles(kitchen) ==
    [k \in 1..Len(get_recipes_in_kitchen(kitchen)) |-> get_recipes_in_kitchen(kitchen)[k][1]]

\* C17: at a menu of n entries, the entry k is returned exactly when the
\* line typed is the integer k (blanks around it ignored) with 1 <= k <= n;
\* 'b' goes back only at the recipe menu, where back is allowed; every other
\* line but 'q' (0, n+1, a negative number, no number, the empty line, 'b'
\* at the kitchen menu) is refused with a new prompt, the picker and the
\* selection being as before and the run going on.
ClaimC17_SelectFromList ==
    [][ /\ (pc = "SelectKitchen" /\ NoInterrupt =>
                MenuStep(Kitchens, FALSE, selected_kitchen', "SelectRecipe"))
        /\ (pc = "SelectRecipe" /\ NoInterrupt =>
                MenuStep(RecipeFiles(selected_kitchen), TRUE, selected_recipe', "SelectScale"))
      ]_vars

\* '2' chose the second kitchen, whose menu has one recipe, and '2' was
\* refused there as out of range.
WitnessC17 ==
    /\ pc = "SelectRecipe"
    /\ selected_kitchen = Kitchens[2]
    /\ choice = <<"2">>
    /\ Len(get_recipes_in_kitchen(selected_kitchen)) = 1
    /\ hint = "Please enter a number between 1 and len(items)"

\* C18, in a state: while the generator runs, its recipe arguments are, one
\* per reference and in order, the positional arguments as given (direct
\* mode) or the references of the selection (picker).
GeneratorArguments ==
    pc = "generating" =>
        /\ cmd # <<>>
        /\ mode = "direct" => cmd = recipes
        /\ mode = "interactive" =>
              /\ Len(cmd) = Len(selected_recipes)
              /\ \A i \in 1..Len(cmd) : cmd[i] = selected_recipes[i].path

\* C18, in a step: the reference a completed scale prompt appends is
\* kitchen/file of the kitchen and the recipe chosen, without a suffix when
\* the scale is 1.0 and with the scale as its suffix otherwise, so that it
\* reads, as a positional argument would, as the same recipe at that scale.
ReferenceAppended ==
    pc = "SelectScale" /\ pc' = "AskAddAnother" =>
        LET entry == selected_recipes'[Len(selected_recipes')]
        IN  /\ entry.path.path = selected_kitchen \o "/" \o selected_recipe
            /\ entry.scale = Num(10) <=> entry.path.suffix = NoSuffix
            /\ ScaleOf(entry.path) = entry.scale

\* C18: the generator is run with exactly the references of the run, one
\* argument each, in order and with duplicates kept: the positional
\* arguments unmodified in direct mode, and in the picker kitchen/file for
\* a scale of 1.0 and kitchen/file:scale otherwise.
ClaimC18_GeneratorArguments == []GeneratorArguments /\ [][ReferenceAppended]_vars

\* The generator runs on the selection of the same recipe twice, once at
\* scale 1.0 (no suffix) and once at scale 2 (suffix 2.0).
WitnessC18 ==
    /\ pc = "generating"
    /\ mode = "interactive"
    /\ Len(cmd) = 2
    /\ cmd[1].path = cmd[2].path
    /\ cmd[1].suffix = NoSuffix
    /\ cmd[2].suffix = <<"2", ".", "0">>

\* The points at which a read of getch is in progress.
GetchPoints == {"AskAddAnother", "AskSend"}

\* C19, in a state: the terminal is in raw mode only while a read of getch
\* is in progress, and getch then holds the attributes it found, which are
\* those of the start of the run.
RawOnlyInGetch ==
    /\ term = "raw" => pc \in GetchPoints
    /\ pc \in GetchPoints => old_settings = "cooked"
    /\ pc \notin GetchPoints => term = "cooked" /\ old_settings = ""

\* C19, in a step: when a getch ends, by a key or by an interrupt raised in
\* its read, the terminal has the attributes getch captured at its start
\* as soon as control is back in the caller.
RestoredAfterGetch ==
    pc \in GetchPoints /\ pc' \notin GetchPoints => term' = old_settings

\* C19: the terminal is raw only during a read of getch; after every getch,
\* however it ends, its attributes are those captured at the start of that
\* getch.
ClaimC19_TerminalRestored == []RawOnlyInGetch /\ [][RestoredAfterGetch]_vars

\* A run that was interrupted during the read of "Send to Bring!", after a
\* key that the prompt refused: the terminal is as it was.
WitnessC19 ==
    /\ pc = "exit"
    /\ Printed("Cancelled by user.")
    /\ Printed("Send to Bring! Shopping List?")
    /\ send = <<"x">>
    /\ term = "cooked"

\* C20, in a state of a picker run: at "Add Another Recipe?" and while the
\* generator runs the selection holds a reference, and the generator's
\* arguments are not empty; the "No recipes selected." branch is never
\* taken; a run that ended before generation with nothing selected ended
\* by 'q', by an interrupt or for want of a kitchen.
SelectionNotEmpty ==
    /\ pc = "AskAddAnother" => selected_recipes # <<>>
    /\ mode = "interactive" /\ pc = "generating" => selected_recipes # <<>> /\ cmd # <<>>
    /\ ~Printed("No recipes selected.")
    /\ mode = "interactive" /\ pc = "exit" /\ gen_calls = 0 /\ selected_recipes = <<>> =>
          \/ Lower(choice) = <<"q">> /\ exit_status = 0
          \/ Interrupted
          \/ Printed("Error: No recipe directories found!") /\ exit_status = 1

\* C20, in a step of the picker: the selection stays as it is or gets one
\* more reference at its end.
SelectionOnlyGrows ==
    pc \in PickerScreens => UNCHANGED selected_recipes \/ OneAppended

\* C20: the selection of the picker only grows, by appending, and holds a
\* reference whenever the picker asks "Add Another Recipe?" or runs the
\* generator; a session ends with nothing selected only by quit, by an
\* interrupt or by the no-kitchens error.
ClaimC20_SelectionNeverEmpty == []SelectionNotEmpty /\ [][SelectionOnlyGrows]_vars

\* "Add Another Recipe?" is asked for the second time, with two references
\* selected.
WitnessC20 ==
    /\ pc = "AskAddAnother"
    /\ Len(selected_recipes) = 2
    /\ another = <<"y">>

====
